---- MODULE Spec2Model ----
(***************************************************************************)
(* Model of the shadow-OAM interface of gbdk-lib/include/nes/nes.h: the    *)
(* sprite mutators and getters, the OAM DMA configuration macros, the      *)
(* interrupt mask and the per-frame vertical-blank copy into the hardware  *)
(* OAM.                                                                    *)
(***************************************************************************)
EXTENDS Integers, Sequences, FiniteSets, TLC

(***************************************************************************)
(* Program constants.                                                      *)
(***************************************************************************)
\* Amount of hardware sprites in OAM.
MAX_HARDWARE_SPRITES == 64

\* Number of values of a uint8_t: the fields of OAM_item_t and the
\* parameters of the sprite functions are uint8_t.
UINT8_RANGE == 256

\* Number of values of a uint16_t: SET_SHADOW_OAM_ADDRESS and ENABLE_OAM_DMA
\* cast the address to uint16_t before taking its high byte.
UINT16_RANGE == 65536

\* Y position hide_sprite moves a sprite to; Y >= 240 is off screen.
HIDDEN_Y == 240

\* Address the linker gives shadow_OAM: page 2 of the 6502 address space,
\* 256-byte aligned.
SHADOW_OAM_ADDRESS == 512

(***************************************************************************)
(* Bounds of the model.                                                    *)
(***************************************************************************)
\* Highest page of RAM the application may hand to SET_SHADOW_OAM_ADDRESS;
\* pages 0..MaxPage exist in the model.
MaxPage == 3

Pages == 0 .. MaxPage

\* 256-byte aligned addresses the application hands to SET_SHADOW_OAM_ADDRESS.
AlignedAddresses == {p * UINT8_RANGE : p \in Pages}

Byte == 0 .. (UINT8_RANGE - 1)

Int8 == (0 - (UINT8_RANGE \div 2)) .. ((UINT8_RANGE \div 2) - 1)

SpriteNumbers == 0 .. (MAX_HARDWARE_SPRITES - 1)

\* Sprite numbers one run of the application animates: the first and the last.
ActorSprites == {0, MAX_HARDWARE_SPRITES - 1}

\* Tile numbers and property flags the application writes.
TileSample == {1}

PropSample == {128}

\* Positions the application moves a sprite to, as <<x, y>>.
MoveSample == {<<128, 112>>}

\* Deltas the application scrolls a sprite by, as <<dx, dy>>.
ScrollSample == {<<-128, -128>>}

\* Tile numbers and property flags written in SpecSprites.
TileBytes == {1, UINT8_RANGE - 1}

PropBytes == {128, UINT8_RANGE - 1}

\* Number of sprites the critical section of SpecCritical moves together.
MetaSprites == 2

\* Horizontal distance between two sprites of that group.
MetaStride == 8

\* Positions the group is moved to, as <<x, y>>.
MetaTargets == {<<128, 112>>, <<248, 16>>, <<0, 239>>, <<8, 64>>}

(***************************************************************************)
(* Data.                                                                   *)
(***************************************************************************)
\* struct OAM_item_t: y, tile, prop, x, one byte each.
OAM_item_t == [y : Byte, tile : Byte, prop : Byte, x : Byte]

\* A 256-byte array of 64 OAM items whose every byte is v.
FilledOAM(v) == [i \in SpriteNumbers |-> [y |-> v, tile |-> v, prop |-> v, x |-> v]]

\* uint8_t cast.
ToUint8(n) == n % UINT8_RANGE

\* uint16_t cast.
ToUint16(n) == n % UINT16_RANGE

(***************************************************************************)
(* The sprite functions, as functions of the shadow OAM array.             *)
(***************************************************************************)
set_sprite_tile(oam, nb, tile) == [oam EXCEPT ![nb].tile = tile]

get_sprite_tile(oam, nb) == oam[nb].tile

set_sprite_prop(oam, nb, prop) == [oam EXCEPT ![nb].prop = prop]

\* Mutant: the getter reads the tile field.
get_sprite_prop_ReadsTile(oam, nb) == oam[nb].tile

get_sprite_prop(oam, nb) == oam[nb].prop

\* Mutant: the coordinates are stored in each other's field.
move_sprite_Swapped(oam, nb, x, y) == [oam EXCEPT ![nb].y = x, ![nb].x = y]

\* itm->y=y, itm->x=x
move_sprite(oam, nb, x, y) == [oam EXCEPT ![nb].y = y, ![nb].x = x]

\* Mutant: the deltas are applied to the wrong coordinates.
scroll_sprite_Swapped(oam, nb, x, y) ==
    [oam EXCEPT ![nb].y = ToUint8(@ + x), ![nb].x = ToUint8(@ + y)]

\* itm->y+=y, itm->x+=x: uint8_t += int8_t, truncated back to uint8_t.
scroll_sprite(oam, nb, x, y) ==
    [oam EXCEPT ![nb].y = ToUint8(@ + y), ![nb].x = ToUint8(@ + x)]

\* Mutant: hiding resets the whole entry.
hide_sprite_ClearsEntry(oam, nb) ==
    [oam EXCEPT ![nb] = [y |-> HIDDEN_Y, tile |-> 0, prop |-> 0, x |-> 0]]

\* Mutant: the Game Boy's hiding position, Y = 0, which the NES displays.
hide_sprite_GB(oam, nb) == [oam EXCEPT ![nb].y = 0]

hide_sprite(oam, nb) == [oam EXCEPT ![nb].y = HIDDEN_Y]

(***************************************************************************)
(* The OAM DMA configuration: the value each macro stores in               *)
(* _shadow_OAM_base.                                                       *)
(***************************************************************************)
\* Mutant: the macro leaves _shadow_OAM_base at the page of shadow_OAM.
DISABLE_OAM_DMA_KeepsPage == SHADOW_OAM_ADDRESS \div UINT8_RANGE

DISABLE_OAM_DMA == 0

\* Mutant: the low byte of the address instead of the high byte.
ENABLE_OAM_DMA_LowByte == ToUint8(ToUint16(SHADOW_OAM_ADDRESS))

ENABLE_OAM_DMA == ToUint8(ToUint16(SHADOW_OAM_ADDRESS) \div UINT8_RANGE)

SET_SHADOW_OAM_ADDRESS(address) == ToUint8(ToUint16(address) \div UINT8_RANGE)

(***************************************************************************)
(* State.                                                                  *)
(***************************************************************************)
VARIABLES
    shadow_OAM,        \* the shadow OAM array in WRAM
    OAM,               \* the hardware OAM of the PPU
    _shadow_OAM_base,  \* MSB of the DMA source address; 0: no DMA
    cpu_I,             \* the 6502 interrupt-disable flag (sei sets, cli clears)
    actor,             \* the sprite number this run of the application animates
    ret,               \* the value the last getter returned
    pc,                \* where the application's routine stands
    lastCall,          \* history: the call or handler that made the last step
    written,           \* history: per sprite, the tile and prop last passed to a setter
    dma,               \* history: the DMA configuration calls made so far
    vbl_done,          \* the flag the vertical-blank handler raises for wait_vbl_done
    _map_tile_offset,  \* the offset set_bkg_tiles adds to every tile it writes
    _submap_tile_offset, \* the offset set_bkg_submap adds to every tile it writes
    calls              \* history: the tile and map writes the last operation called
                       \* (every action leaves pc to the specification that uses it)

vars == <<shadow_OAM, OAM, _shadow_OAM_base, cpu_I, actor, ret, pc, lastCall, written, dma,
          vbl_done, _map_tile_offset, _submap_tile_offset, calls>>

\* The state of the background and tile data writers.
tilevars == <<_map_tile_offset, _submap_tile_offset, calls>>

Call(op, nb, a, b) == [op |-> op, nb |-> nb, a |-> a, b |-> b]

\* The page of RAM shadow_OAM lies in.
ShadowOAMPage == SHADOW_OAM_ADDRESS \div UINT8_RANGE

\* The array of 64 OAM items at a page of RAM: shadow_OAM at its own page, an
\* application buffer elsewhere.
BufferAt(page) == IF page = ShadowOAMPage THEN shadow_OAM ELSE FilledOAM(page)

\* No setter called yet.
NotWritten == [f \in {"tile", "prop"} |-> [i \in SpriteNumbers |-> -1]]

\* The history of the DMA configuration calls:
\*   last     the last such call ("reset" before the first),
\*   address  its argument,
\*   afterSet p when the last call is ENABLE_OAM_DMA and the one before it
\*            SET_SHADOW_OAM_ADDRESS(p); -1 otherwise,
\*   window   "quiet" from a DISABLE_OAM_DMA to the next configuration call,
\*            "set" from a SET_SHADOW_OAM_ADDRESS made after a DISABLE_OAM_DMA
\*            to the next ENABLE_OAM_DMA or DISABLE_OAM_DMA, "none" otherwise,
\*   dirty    inside a window: a sprite mutator was called since the
\*            DISABLE_OAM_DMA that opened it.
DmaReset == [last |-> "reset", address |-> 0, afterSet |-> -1, window |-> "none", dirty |-> FALSE]

DmaAfterDisable ==
    [last |-> "DISABLE_OAM_DMA", address |-> 0, afterSet |-> -1, window |-> "quiet", dirty |-> FALSE]

DmaAfterEnable ==
    [last |-> "ENABLE_OAM_DMA", address |-> 0,
     afterSet |-> IF dma.last = "SET_SHADOW_OAM_ADDRESS" THEN dma.address ELSE -1,
     window |-> "none", dirty |-> FALSE]

DmaAfterSet(address) ==
    [last |-> "SET_SHADOW_OAM_ADDRESS", address |-> address, afterSet |-> -1,
     window |-> IF dma.window = "none" THEN "none" ELSE "set", dirty |-> dma.dirty]

DmaAfterMutator == [dma EXCEPT !.dirty = (dma.window # "none")]

Init ==
    /\ shadow_OAM = FilledOAM(0)
    /\ OAM \in {FilledOAM(0), FilledOAM(UINT8_RANGE - 1)}
    /\ _shadow_OAM_base = ENABLE_OAM_DMA
    /\ cpu_I = FALSE
    /\ actor \in ActorSprites
    /\ ret = 0
    /\ pc = [at |-> "idle", i |-> 0, x |-> 0, y |-> 0]
    /\ lastCall = Call("reset", 0, 0, 0)
    /\ written = NotWritten
    /\ dma = DmaReset
    /\ vbl_done = FALSE
    /\ _map_tile_offset = 0
    /\ _submap_tile_offset = 0
    /\ calls = <<>>

(***************************************************************************)
(* Actions: one per function, macro or handler.                            *)
(***************************************************************************)
\* Mutant: the tile is also poked into the hardware OAM.
SetSpriteTile_Hardware(nb, tile) ==
    /\ shadow_OAM' = set_sprite_tile(shadow_OAM, nb, tile)
    /\ OAM' = set_sprite_tile(OAM, nb, tile)
    /\ lastCall' = Call("set_sprite_tile", nb, tile, 0)
    /\ written' = [written EXCEPT !.tile[nb] = tile]
    /\ dma' = DmaAfterMutator
    /\ UNCHANGED <<_shadow_OAM_base, cpu_I, actor, ret, vbl_done, tilevars>>

SetSpriteTile(nb, tile) ==
    /\ shadow_OAM' = set_sprite_tile(shadow_OAM, nb, tile)
    /\ lastCall' = Call("set_sprite_tile", nb, tile, 0)
    /\ written' = [written EXCEPT !.tile[nb] = tile]
    /\ dma' = DmaAfterMutator
    /\ UNCHANGED <<OAM, _shadow_OAM_base, cpu_I, actor, ret, vbl_done, tilevars>>

GetSpriteTile(nb) ==
    /\ ret' = get_sprite_tile(shadow_OAM, nb)
    /\ lastCall' = Call("get_sprite_tile", nb, 0, 0)
    /\ UNCHANGED <<shadow_OAM, OAM, _shadow_OAM_base, cpu_I, actor, written, dma, vbl_done, tilevars>>

SetSpriteProp(nb, prop) ==
    /\ shadow_OAM' = set_sprite_prop(shadow_OAM, nb, prop)
    /\ lastCall' = Call("set_sprite_prop", nb, prop, 0)
    /\ written' = [written EXCEPT !.prop[nb] = prop]
    /\ dma' = DmaAfterMutator
    /\ UNCHANGED <<OAM, _shadow_OAM_base, cpu_I, actor, ret, vbl_done, tilevars>>

GetSpriteProp(nb) ==
    /\ ret' = get_sprite_prop(shadow_OAM, nb)
    /\ lastCall' = Call("get_sprite_prop", nb, 0, 0)
    /\ UNCHANGED <<shadow_OAM, OAM, _shadow_OAM_base, cpu_I, actor, written, dma, vbl_done, tilevars>>

MoveSprite(nb, x, y) ==
    /\ shadow_OAM' = move_sprite(shadow_OAM, nb, x, y)
    /\ lastCall' = Call("move_sprite", nb, x, y)
    /\ dma' = DmaAfterMutator
    /\ UNCHANGED <<OAM, _shadow_OAM_base, cpu_I, actor, ret, written, vbl_done, tilevars>>

ScrollSprite(nb, x, y) ==
    /\ shadow_OAM' = scroll_sprite(shadow_OAM, nb, x, y)
    /\ lastCall' = Call("scroll_sprite", nb, x, y)
    /\ dma' = DmaAfterMutator
    /\ UNCHANGED <<OAM, _shadow_OAM_base, cpu_I, actor, ret, written, vbl_done, tilevars>>

HideSprite(nb) ==
    /\ shadow_OAM' = hide_sprite(shadow_OAM, nb)
    /\ lastCall' = Call("hide_sprite", nb, 0, 0)
    /\ dma' = DmaAfterMutator
    /\ UNCHANGED <<OAM, _shadow_OAM_base, cpu_I, actor, ret, written, vbl_done, tilevars>>

DisableOamDma ==
    /\ _shadow_OAM_base' = DISABLE_OAM_DMA
    /\ lastCall' = Call("DISABLE_OAM_DMA", 0, 0, 0)
    /\ dma' = DmaAfterDisable
    /\ UNCHANGED <<shadow_OAM, OAM, cpu_I, actor, ret, written, vbl_done, tilevars>>

\* Mutant: the macro only switches the DMA on, keeping a source address set
\* before.
EnableOamDma_KeepsAddress ==
    /\ _shadow_OAM_base' = IF dma.last = "SET_SHADOW_OAM_ADDRESS" /\ _shadow_OAM_base # 0
                              THEN _shadow_OAM_base ELSE ENABLE_OAM_DMA
    /\ lastCall' = Call("ENABLE_OAM_DMA", 0, 0, 0)
    /\ dma' = DmaAfterEnable
    /\ UNCHANGED <<shadow_OAM, OAM, cpu_I, actor, ret, written, vbl_done, tilevars>>

EnableOamDma ==
    /\ _shadow_OAM_base' = ENABLE_OAM_DMA
    /\ lastCall' = Call("ENABLE_OAM_DMA", 0, 0, 0)
    /\ dma' = DmaAfterEnable
    /\ UNCHANGED <<shadow_OAM, OAM, cpu_I, actor, ret, written, vbl_done, tilevars>>

SetShadowOamAddress(address) ==
    /\ _shadow_OAM_base' = SET_SHADOW_OAM_ADDRESS(address)
    /\ lastCall' = Call("SET_SHADOW_OAM_ADDRESS", 0, address, 0)
    /\ dma' = DmaAfterSet(address)
    /\ UNCHANGED <<shadow_OAM, OAM, cpu_I, actor, ret, written, vbl_done, tilevars>>

\* Mutant: the calls nest; cli is executed only by the enable_interrupts call
\* that matches the first of the disable_interrupts calls counted in pc.i.
enable_interrupts_Nested ==
    /\ cpu_I' = (pc.i > 1)
    /\ lastCall' = Call("enable_interrupts", 0, 0, 0)
    /\ UNCHANGED <<shadow_OAM, OAM, _shadow_OAM_base, actor, ret, written, dma, vbl_done, tilevars>>

\* cli
enable_interrupts ==
    /\ cpu_I' = FALSE
    /\ lastCall' = Call("enable_interrupts", 0, 0, 0)
    /\ UNCHANGED <<shadow_OAM, OAM, _shadow_OAM_base, actor, ret, written, dma, vbl_done, tilevars>>

\* Mutant: the function executes cli.
disable_interrupts_Cli ==
    /\ cpu_I' = FALSE
    /\ lastCall' = Call("disable_interrupts", 0, 0, 0)
    /\ UNCHANGED <<shadow_OAM, OAM, _shadow_OAM_base, actor, ret, written, dma, vbl_done, tilevars>>

\* sei
disable_interrupts ==
    /\ cpu_I' = TRUE
    /\ lastCall' = Call("disable_interrupts", 0, 0, 0)
    /\ UNCHANGED <<shadow_OAM, OAM, _shadow_OAM_base, actor, ret, written, dma, vbl_done, tilevars>>

\* The vertical-blank interrupt handler: delivered when interrupts are not
\* masked; it DMA-copies the 256 bytes at page _shadow_OAM_base into the
\* hardware OAM unless _shadow_OAM_base is 0, and raises vbl_done.
VBlank ==
    /\ ~cpu_I
    /\ OAM' = IF _shadow_OAM_base # 0 THEN BufferAt(_shadow_OAM_base) ELSE OAM
    /\ vbl_done' = TRUE
    /\ lastCall' = Call("vblank", 0, 0, 0)
    /\ UNCHANGED <<shadow_OAM, _shadow_OAM_base, cpu_I, actor, ret, written, dma, tilevars>>

(***************************************************************************)
(* Spec: an application that animates one sprite, reconfigures the OAM DMA *)
(* and masks interrupts, in any order, with a vertical blank at any point  *)
(* where interrupts are not masked.                                        *)
(***************************************************************************)
Next ==
    /\ \/ \E t \in TileSample : SetSpriteTile(actor, t)
       \/ \E p \in PropSample : SetSpriteProp(actor, p)
       \/ \E m \in MoveSample : MoveSprite(actor, m[1], m[2])
       \/ \E d \in ScrollSample : ScrollSprite(actor, d[1], d[2])
       \/ HideSprite(actor)
       \/ DisableOamDma
       \/ EnableOamDma
       \/ \E a \in AlignedAddresses : SetShadowOamAddress(a)
       \/ enable_interrupts
       \/ disable_interrupts
       \/ VBlank
    /\ UNCHANGED pc

Spec == Init /\ [][Next]_vars

(***************************************************************************)
(* Properties of the OAM DMA, checked under Spec.                          *)
(***************************************************************************)
Mutators == {"set_sprite_tile", "set_sprite_prop", "move_sprite", "scroll_sprite", "hide_sprite"}

\* The vertical blank that just ran changed the hardware OAM, and the
\* hardware OAM now holds the shadow buffer with a mutation made since the
\* DISABLE_OAM_DMA.
ShadowMutationReflected ==
    /\ lastCall'.op = "vblank"
    /\ dma.dirty
    /\ OAM' # OAM
    /\ OAM' = shadow_OAM

\* C4 as stated: from a DISABLE_OAM_DMA until the next ENABLE_OAM_DMA, no
\* vertical blank brings a mutation of the shadow buffer into the hardware OAM.
C4_NoReflectionUntilEnable == [][dma.window # "none" => ~ShadowMutationReflected]_vars

\* C4, amended: from a DISABLE_OAM_DMA until the next DMA configuration call
\* (ENABLE_OAM_DMA, SET_SHADOW_OAM_ADDRESS or DISABLE_OAM_DMA), no step, a
\* vertical blank included, changes the hardware OAM.
C4_NoCopyWhileDisabled == [][(dma.window = "quiet" /\ dma'.window = "quiet") => OAM' = OAM]_vars

\* A vertical blank passed after a DISABLE_OAM_DMA and a mutation, and the
\* hardware OAM still differs from the shadow buffer.
C4_Witness ==
    /\ dma.window = "quiet"
    /\ dma.dirty
    /\ lastCall.op = "vblank"
    /\ OAM # shadow_OAM

\* C5 as stated: after SET_SHADOW_OAM_ADDRESS(p) followed by ENABLE_OAM_DMA, a
\* vertical-blank copy sources from the buffer at p, not from shadow_OAM.
C5_CopiesFromSetAddress ==
    (dma.afterSet \notin {-1, SHADOW_OAM_ADDRESS} /\ lastCall.op = "vblank")
        => OAM = BufferAt(dma.afterSet \div UINT8_RANGE)

\* C5, amended: after SET_SHADOW_OAM_ADDRESS(p) followed by ENABLE_OAM_DMA,
\* _shadow_OAM_base is the page of shadow_OAM and a vertical-blank copy
\* sources from shadow_OAM, whatever p was.
C5_EnableRestoresDefault ==
    dma.afterSet # -1 =>
        /\ _shadow_OAM_base = ShadowOAMPage
        /\ lastCall.op = "vblank" => OAM = shadow_OAM

\* SET_SHADOW_OAM_ADDRESS of an application buffer, then ENABLE_OAM_DMA, then a
\* vertical blank that copied a mutated shadow buffer, not that buffer.
C5_Witness ==
    /\ dma.afterSet \notin {-1, 0, SHADOW_OAM_ADDRESS}
    /\ lastCall.op = "vblank"
    /\ OAM = shadow_OAM
    /\ OAM # FilledOAM(0)
    /\ OAM # BufferAt(dma.afterSet \div UINT8_RANGE)

\* The vertical blank comes once per frame for as long as interrupts are not
\* masked.
SpecLive == Init /\ [][Next]_vars /\ WF_vars(VBlank /\ UNCHANGED pc)

C8_MutatorsLeaveHardware == [][lastCall'.op # "vblank" => OAM' = OAM]_vars

\* A mutator changed the shadow buffer and the hardware OAM still holds the
\* copy of the last vertical blank.
C8_Witness ==
    /\ lastCall.op \in Mutators
    /\ OAM = FilledOAM(0)
    /\ shadow_OAM # OAM

\* C10 as stated: SET_SHADOW_OAM_ADDRESS(address) enables the DMA for every
\* 256-byte aligned address, and a vertical-blank copy then sources from the
\* array at that address.
C10_SetAddressEnables ==
    dma.last = "SET_SHADOW_OAM_ADDRESS" =>
        /\ _shadow_OAM_base # 0
        /\ lastCall.op = "vblank" => OAM = BufferAt(dma.address \div UINT8_RANGE)


(***************************************************************************)
(* SpecSprites: either the sprite mutators and getters called in any order *)
(* on the first and the last sprite (pc.at = "idle"), or one setter call   *)
(* with any sprite number and any byte, followed by its getter             *)
(* (pc.at = "roundtrip"), or one move_sprite call with any sprite number   *)
(* and any horizontal position, followed by a second move of the same      *)
(* sprite (pc.at = "place").                                               *)
(***************************************************************************)
InitSprites ==
    /\ shadow_OAM = FilledOAM(0)
    /\ OAM = FilledOAM(0)
    /\ _shadow_OAM_base = ENABLE_OAM_DMA
    /\ cpu_I = FALSE
    /\ actor = 0
    /\ ret = 0
    /\ pc \in {[at |-> at, i |-> 0, x |-> 0, y |-> 0] : at \in {"idle", "roundtrip", "place"}}
    /\ lastCall = Call("reset", 0, 0, 0)
    /\ written = NotWritten
    /\ dma = DmaReset
    /\ vbl_done = FALSE
    /\ _map_tile_offset = 0
    /\ _submap_tile_offset = 0
    /\ calls = <<>>

\* Positions: every horizontal position, each with a different vertical one.
PlacePositions == {<<x, UINT8_RANGE - 1 - x>> : x \in Byte}

AnyOrder ==
    /\ pc.at = "idle"
    /\ \E nb \in ActorSprites :
          \/ \E t \in TileBytes : SetSpriteTile(nb, t)
          \/ GetSpriteTile(nb)
          \/ \E p \in PropBytes : SetSpriteProp(nb, p)
          \/ GetSpriteProp(nb)
          \/ \E m \in MoveSample : MoveSprite(nb, m[1], m[2])
          \/ \E d \in ScrollSample : ScrollSprite(nb, d[1], d[2])
          \/ HideSprite(nb)

RoundTrip ==
    /\ pc.at = "roundtrip"
    /\ \/ /\ lastCall.op = "reset"
          /\ \E nb \in SpriteNumbers, v \in Byte :
                SetSpriteTile(nb, v) \/ SetSpriteProp(nb, v)
       \/ /\ lastCall.op = "set_sprite_tile"
          /\ GetSpriteTile(lastCall.nb)
       \/ /\ lastCall.op = "set_sprite_prop"
          /\ GetSpriteProp(lastCall.nb)

Place ==
    /\ pc.at = "place"
    /\ \/ /\ lastCall.op = "reset"
          /\ \E nb \in SpriteNumbers, p \in PlacePositions : MoveSprite(nb, p[1], p[2])
       \/ /\ lastCall.op = "move_sprite"
          /\ <<lastCall.a, lastCall.b>> \in PlacePositions
          /\ \E m \in MoveSample : MoveSprite(lastCall.nb, m[1], m[2])

NextSprites ==
    /\ AnyOrder \/ RoundTrip \/ Place
    /\ UNCHANGED pc

SpecSprites == InitSprites /\ [][NextSprites]_vars

(***************************************************************************)
(* SpecScroll: one scroll_sprite call, from every horizontal and every     *)
(* vertical position by every horizontal and every vertical delta.         *)
(***************************************************************************)
\* Positions <<x, y>>: every x in 0..255 and every y in 0..255 occurs.
ScrollPositions == {<<x, UINT8_RANGE - 1 - x>> : x \in Byte}

\* Deltas <<dx, dy>>: every dx in -128..127 and every dy in -128..127 occurs.
ScrollDeltas == {<<d, (0 - 1) - d>> : d \in Int8}

InitScroll ==
    /\ \E nb \in ActorSprites, p \in ScrollPositions :
          /\ actor = nb
          /\ shadow_OAM = [FilledOAM(0) EXCEPT ![nb].x = p[1], ![nb].y = p[2]]
    /\ OAM = FilledOAM(0)
    /\ _shadow_OAM_base = ENABLE_OAM_DMA
    /\ cpu_I = FALSE
    /\ ret = 0
    /\ pc = [at |-> "idle", i |-> 0, x |-> 0, y |-> 0]
    /\ lastCall = Call("reset", 0, 0, 0)
    /\ written = NotWritten
    /\ dma = DmaReset
    /\ vbl_done = FALSE
    /\ _map_tile_offset = 0
    /\ _submap_tile_offset = 0
    /\ calls = <<>>

NextScroll ==
    /\ lastCall.op = "reset"
    /\ \E d \in ScrollDeltas : ScrollSprite(actor, d[1], d[2])
    /\ UNCHANGED pc

SpecScroll == InitScroll /\ [][NextScroll]_vars

(***************************************************************************)
(* SpecHideAll: the application hides all 64 sprites at startup, one       *)
(* hide_sprite call per index, and then animates one of them; a vertical   *)
(* blank may come at any point.                                            *)
(***************************************************************************)
InitHideAll ==
    /\ shadow_OAM = FilledOAM(0)
    /\ OAM \in {FilledOAM(0), FilledOAM(UINT8_RANGE - 1)}
    /\ _shadow_OAM_base = ENABLE_OAM_DMA
    /\ cpu_I = FALSE
    /\ actor \in ActorSprites
    /\ ret = 0
    /\ pc = [at |-> "hide_all", i |-> 0, x |-> 0, y |-> 0]
    /\ lastCall = Call("reset", 0, 0, 0)
    /\ written = NotWritten
    /\ dma = DmaReset
    /\ vbl_done = FALSE
    /\ _map_tile_offset = 0
    /\ _submap_tile_offset = 0
    /\ calls = <<>>

\* for (i = 0; i < MAX_HARDWARE_SPRITES; i++) hide_sprite(i);
HideAllStep ==
    /\ pc.at = "hide_all"
    /\ HideSprite(pc.i)
    /\ pc' = IF pc.i + 1 < MAX_HARDWARE_SPRITES
               THEN [pc EXCEPT !.i = pc.i + 1]
               ELSE [pc EXCEPT !.at = "hidden", !.i = MAX_HARDWARE_SPRITES]

\* After the loop: a move_sprite or scroll_sprite call shows a sprite again.
ShowStep ==
    /\ pc.at \in {"hidden", "shown"}
    /\ \/ \E m \in MoveSample : MoveSprite(actor, m[1], m[2])
       \/ \E d \in ScrollSample : ScrollSprite(actor, d[1], d[2])
    /\ pc' = [pc EXCEPT !.at = "shown"]

\* After the loop: calls that leave the positions alone or hide again.
DressStep ==
    /\ pc.at \in {"hidden", "shown"}
    /\ \/ \E t \in TileSample : SetSpriteTile(actor, t)
       \/ \E p \in PropSample : SetSpriteProp(actor, p)
       \/ HideSprite(actor)
    /\ UNCHANGED pc

NextHideAll ==
    \/ HideAllStep
    \/ ShowStep
    \/ DressStep
    \/ VBlank /\ UNCHANGED pc

SpecHideAll == InitHideAll /\ [][NextHideAll]_vars

(***************************************************************************)
(* SpecCritical: the application moves a group of MetaSprites sprites, laid *)
(* out MetaStride pixels apart, inside a critical section:                 *)
(*   disable_interrupts();                                                 *)
(*   for (i = 0; i < MetaSprites; i++) move_sprite(i, x + i * MetaStride, y); *)
(*   enable_interrupts();                                                  *)
(* A vertical blank may come at any point where interrupts are not masked.  *)
(***************************************************************************)
MetaGroup == 0 .. (MetaSprites - 1)

\* The group stands together in an OAM array.
MetaConsistent(oam) ==
    \A i \in MetaGroup :
        /\ oam[i].x = ToUint8(oam[0].x + i * MetaStride)
        /\ oam[i].y = oam[0].y

\* The group stands together at <<0, 0>>.
MetaPlaced ==
    [i \in SpriteNumbers |->
        IF i \in MetaGroup
            THEN [y |-> 0, tile |-> 0, prop |-> 0, x |-> ToUint8(i * MetaStride)]
            ELSE [y |-> 0, tile |-> 0, prop |-> 0, x |-> 0]]

InitCritical ==
    /\ shadow_OAM = MetaPlaced
    /\ OAM = MetaPlaced
    /\ _shadow_OAM_base = ENABLE_OAM_DMA
    /\ cpu_I = FALSE
    /\ actor = 0
    /\ ret = 0
    /\ pc = [at |-> "idle", i |-> 0, x |-> 0, y |-> 0]
    /\ lastCall = Call("reset", 0, 0, 0)
    /\ written = NotWritten
    /\ dma = DmaReset
    /\ vbl_done = FALSE
    /\ _map_tile_offset = 0
    /\ _submap_tile_offset = 0
    /\ calls = <<>>

CriticalBegin ==
    /\ pc.at = "idle"
    /\ disable_interrupts
    /\ \E t \in MetaTargets : pc' = [at |-> "update", i |-> 0, x |-> t[1], y |-> t[2]]

CriticalMove ==
    /\ pc.at = "update"
    /\ pc.i < MetaSprites
    /\ MoveSprite(pc.i, ToUint8(pc.x + pc.i * MetaStride), pc.y)
    /\ pc' = [pc EXCEPT !.i = pc.i + 1]

CriticalEnd ==
    /\ pc.at = "update"
    /\ pc.i = MetaSprites
    /\ enable_interrupts
    /\ pc' = [at |-> "idle", i |-> 0, x |-> 0, y |-> 0]

NextCritical ==
    \/ CriticalBegin
    \/ CriticalMove
    \/ CriticalEnd
    \/ VBlank /\ UNCHANGED pc

SpecCritical == InitCritical /\ [][NextCritical]_vars

(***************************************************************************)
(* Properties of the sprite functions.                                     *)
(***************************************************************************)
\* C1: for every sprite, once set_sprite_tile (set_sprite_prop) was called on
\* it, the tile (prop) field read by get_sprite_tile (get_sprite_prop) is the
\* value last passed to the setter, whatever other calls came in between,
\* and a call of the getter returns it.
C1_GetAfterSet ==
    /\ \A nb \in SpriteNumbers :
          /\ written.tile[nb] # -1 => get_sprite_tile(shadow_OAM, nb) = written.tile[nb]
          /\ written.prop[nb] # -1 => get_sprite_prop(shadow_OAM, nb) = written.prop[nb]
    /\ (lastCall.op = "get_sprite_tile" /\ written.tile[lastCall.nb] # -1)
          => ret = written.tile[lastCall.nb]
    /\ (lastCall.op = "get_sprite_prop" /\ written.prop[lastCall.nb] # -1)
          => ret = written.prop[lastCall.nb]

\* get_sprite_prop returned the flags 255 set on the last sprite, whose tile
\* was set to another value and which was hidden in between.
C1_Witness ==
    /\ lastCall = Call("get_sprite_prop", MAX_HARDWARE_SPRITES - 1, 0, 0)
    /\ ret = UINT8_RANGE - 1
    /\ written.prop[MAX_HARDWARE_SPRITES - 1] = UINT8_RANGE - 1
    /\ written.tile[MAX_HARDWARE_SPRITES - 1] = 1
    /\ shadow_OAM[MAX_HARDWARE_SPRITES - 1].y = HIDDEN_Y

\* C2: a hide_sprite(nb) call leaves entry nb at Y = 240 with its prop, tile
\* and X as before the call, and every other entry as it was.
C2_HideChangesOnlyY ==
    [][lastCall'.op = "hide_sprite" =>
        LET nb == lastCall'.nb IN
        /\ shadow_OAM'[nb].y = 240
        /\ get_sprite_prop(shadow_OAM', nb) = get_sprite_prop(shadow_OAM, nb)
        /\ get_sprite_tile(shadow_OAM', nb) = get_sprite_tile(shadow_OAM, nb)
        /\ shadow_OAM'[nb].x = shadow_OAM[nb].x
        /\ \A i \in SpriteNumbers \ {nb} : shadow_OAM'[i] = shadow_OAM[i]]_vars

\* hide_sprite just hid a sprite that has a tile, flags and a position.
C2_Witness ==
    /\ lastCall.op = "hide_sprite"
    /\ shadow_OAM[lastCall.nb] = [y |-> 240, tile |-> 255, prop |-> 128, x |-> 128]

(***************************************************************************)
(* SpecTileData: one set_native_tile_data call after reset, with every     *)
(* first_tile of its documented range.                                     *)
(***************************************************************************)
\* A call of one of the library's tile data or tile map writers: the
\* arguments it was passed and, for a tile map writer, the tile offset in
\* force when it was called (-1 for a tile data writer).
Write(fn, args, offset) == [fn |-> fn, args |-> args, offset |-> offset]

\* first_tile: 0 - 511
MaxFirstTile == 511

FirstTiles == 0 .. MaxFirstTile

NbTilesSample == {1, UINT8_RANGE - 1}

\* Source pointers, by number.
DataSample == {0, 1}

\* Mutant: sprite tile data is never written; every tile goes to the
\* background tile data.
set_native_tile_data_BkgOnly(first_tile, nb_tiles, data) ==
    <<Write("set_bkg_data", <<ToUint8(first_tile), nb_tiles, data>>, -1)>>

\* The calls set_native_tile_data makes; the callees take first_tile as a
\* uint8_t.
set_native_tile_data(first_tile, nb_tiles, data) ==
    IF ToUint16(first_tile) < 256
        THEN <<Write("set_bkg_data", <<ToUint8(first_tile), nb_tiles, data>>, -1)>>
        ELSE <<Write("set_sprite_data", <<ToUint8(ToUint16(first_tile) - 256), nb_tiles, data>>, -1)>>

SetNativeTileData(first_tile, nb_tiles, data) ==
    /\ calls' = set_native_tile_data(first_tile, nb_tiles, data)
    /\ lastCall' = Call("set_native_tile_data", nb_tiles, first_tile, data)
    /\ UNCHANGED <<shadow_OAM, OAM, _shadow_OAM_base, cpu_I, actor, ret, written, dma,
                   vbl_done, _map_tile_offset, _submap_tile_offset>>

InitTileData ==
    /\ Init
    /\ actor = 0
    /\ OAM = FilledOAM(0)

NextTileData ==
    /\ lastCall.op = "reset"
    /\ \E first_tile \in FirstTiles, nb_tiles \in NbTilesSample, data \in DataSample :
          SetNativeTileData(first_tile, nb_tiles, data)
    /\ UNCHANGED pc

SpecTileData == InitTileData /\ [][NextTileData]_vars

\* C13: a set_native_tile_data(first_tile, nb_tiles, data) call with first_tile
\* in 0..511 makes exactly one write call, with nb_tiles and data as passed and
\* a start tile in 0..255: set_bkg_data at tile first_tile when first_tile is
\* below 256, set_sprite_data at tile first_tile - 256 when first_tile is
\* above 256.
C13_OneWriteRouted ==
    lastCall.op = "set_native_tile_data" =>
        LET first_tile == lastCall.a IN
        /\ Len(calls) = 1
        /\ calls[1].args[2] = lastCall.nb
        /\ calls[1].args[3] = lastCall.b
        /\ calls[1].args[1] \in 0 .. 255
        /\ first_tile < 256 =>
              calls[1].fn = "set_bkg_data" /\ calls[1].args[1] = first_tile
        /\ first_tile > 256 =>
              calls[1].fn = "set_sprite_data" /\ calls[1].args[1] = first_tile - 256

\* set_native_tile_data(511, 255, data 1) wrote sprite tile data from tile 255.
C13_Witness ==
    /\ lastCall = Call("set_native_tile_data", UINT8_RANGE - 1, MaxFirstTile, 1)
    /\ calls = <<Write("set_sprite_data", <<UINT8_RANGE - 1, UINT8_RANGE - 1, 1>>, -1)>>

(***************************************************************************)
(* SpecBased: an application that writes the background tile map with      *)
(* set_bkg_tiles, set_bkg_submap and their based variants, starting with   *)
(* any value in the two offset variables, with a vertical blank at any     *)
(* point.  While a based call runs, pc.at is its name, pc.i its map        *)
(* arguments and pc.x its base_tile; pc.y tells which of the two based     *)
(* functions have returned so far: 1 set_bkg_based_tiles, 2                *)
(* set_bkg_based_submap, 3 both.                                           *)
(***************************************************************************)
\* Map arguments (x, y, w, h, source pointer, map width), by number.
MapArgs == {0, 1}

\* base_tile: no offset, the smallest and the largest.
BaseTiles == {0, 1, UINT8_RANGE - 1}

\* A value left in an offset variable before the run.
StaleOffset == 7

BasedDone(y, bit) == IF y = bit \/ y = 3 THEN y ELSE y + bit

\* set_bkg_tiles called by the application itself: it reads _map_tile_offset.
set_bkg_tiles(args) ==
    /\ pc.at = "idle"
    /\ calls' = <<Write("set_bkg_tiles", args, _map_tile_offset)>>
    /\ lastCall' = Call("set_bkg_tiles", 0, args, 0)
    /\ UNCHANGED <<shadow_OAM, OAM, _shadow_OAM_base, cpu_I, actor, ret, written, dma,
                   vbl_done, _map_tile_offset, _submap_tile_offset, pc>>

\* _map_tile_offset = base_tile
set_bkg_based_tiles_Begin(args, base_tile) ==
    /\ pc.at = "idle"
    /\ _map_tile_offset' = base_tile
    /\ calls' = <<>>
    /\ pc' = [pc EXCEPT !.at = "set_bkg_based_tiles", !.i = args, !.x = base_tile]
    /\ lastCall' = Call("set_bkg_based_tiles", 0, args, base_tile)
    /\ UNCHANGED <<shadow_OAM, OAM, _shadow_OAM_base, cpu_I, actor, ret, written, dma,
                   vbl_done, _submap_tile_offset>>

\* set_bkg_tiles(x, y, w, h, tiles)
set_bkg_based_tiles_Inner ==
    /\ pc.at = "set_bkg_based_tiles"
    /\ calls = <<>>
    /\ calls' = <<Write("set_bkg_tiles", pc.i, _map_tile_offset)>>
    /\ lastCall' = Call("set_bkg_tiles", 0, pc.i, 0)
    /\ UNCHANGED <<shadow_OAM, OAM, _shadow_OAM_base, cpu_I, actor, ret, written, dma,
                   vbl_done, _map_tile_offset, _submap_tile_offset, pc>>

\* Mutant: the offset is left as set.
set_bkg_based_tiles_End_KeepsOffset ==
    /\ pc.at = "set_bkg_based_tiles"
    /\ calls # <<>>
    /\ pc' = [at |-> "idle", i |-> 0, x |-> 0, y |-> BasedDone(pc.y, 1)]
    /\ lastCall' = Call("set_bkg_based_tiles.ret", 0, 0, 0)
    /\ UNCHANGED <<shadow_OAM, OAM, _shadow_OAM_base, cpu_I, actor, ret, written, dma,
                   vbl_done, _map_tile_offset, _submap_tile_offset, calls>>

\* _map_tile_offset = 0
set_bkg_based_tiles_End ==
    /\ pc.at = "set_bkg_based_tiles"
    /\ calls # <<>>
    /\ _map_tile_offset' = 0
    /\ pc' = [at |-> "idle", i |-> 0, x |-> 0, y |-> BasedDone(pc.y, 1)]
    /\ lastCall' = Call("set_bkg_based_tiles.ret", 0, 0, 0)
    /\ UNCHANGED <<shadow_OAM, OAM, _shadow_OAM_base, cpu_I, actor, ret, written, dma,
                   vbl_done, _submap_tile_offset, calls>>

\* set_bkg_submap called by the application itself: it reads _submap_tile_offset.
set_bkg_submap(args) ==
    /\ pc.at = "idle"
    /\ calls' = <<Write("set_bkg_submap", args, _submap_tile_offset)>>
    /\ lastCall' = Call("set_bkg_submap", 0, args, 0)
    /\ UNCHANGED <<shadow_OAM, OAM, _shadow_OAM_base, cpu_I, actor, ret, written, dma,
                   vbl_done, _map_tile_offset, _submap_tile_offset, pc>>

\* _submap_tile_offset = base_tile
set_bkg_based_submap_Begin(args, base_tile) ==
    /\ pc.at = "idle"
    /\ _submap_tile_offset' = base_tile
    /\ calls' = <<>>
    /\ pc' = [pc EXCEPT !.at = "set_bkg_based_submap", !.i = args, !.x = base_tile]
    /\ lastCall' = Call("set_bkg_based_submap", 0, args, base_tile)
    /\ UNCHANGED <<shadow_OAM, OAM, _shadow_OAM_base, cpu_I, actor, ret, written, dma,
                   vbl_done, _map_tile_offset>>

\* set_bkg_submap(x, y, w, h, map, map_w)
set_bkg_based_submap_Inner ==
    /\ pc.at = "set_bkg_based_submap"
    /\ calls = <<>>
    /\ calls' = <<Write("set_bkg_submap", pc.i, _submap_tile_offset)>>
    /\ lastCall' = Call("set_bkg_submap", 0, pc.i, 0)
    /\ UNCHANGED <<shadow_OAM, OAM, _shadow_OAM_base, cpu_I, actor, ret, written, dma,
                   vbl_done, _map_tile_offset, _submap_tile_offset, pc>>

\* Mutant: the offset is left as set.
set_bkg_based_submap_End_KeepsOffset ==
    /\ pc.at = "set_bkg_based_submap"
    /\ calls # <<>>
    /\ pc' = [at |-> "idle", i |-> 0, x |-> 0, y |-> BasedDone(pc.y, 2)]
    /\ lastCall' = Call("set_bkg_based_submap.ret", 0, 0, 0)
    /\ UNCHANGED <<shadow_OAM, OAM, _shadow_OAM_base, cpu_I, actor, ret, written, dma,
                   vbl_done, _map_tile_offset, _submap_tile_offset, calls>>

\* _submap_tile_offset = 0
set_bkg_based_submap_End ==
    /\ pc.at = "set_bkg_based_submap"
    /\ calls # <<>>
    /\ _submap_tile_offset' = 0
    /\ pc' = [at |-> "idle", i |-> 0, x |-> 0, y |-> BasedDone(pc.y, 2)]
    /\ lastCall' = Call("set_bkg_based_submap.ret", 0, 0, 0)
    /\ UNCHANGED <<shadow_OAM, OAM, _shadow_OAM_base, cpu_I, actor, ret, written, dma,
                   vbl_done, _map_tile_offset, calls>>

InitBased ==
    /\ shadow_OAM = FilledOAM(0)
    /\ OAM = FilledOAM(0)
    /\ _shadow_OAM_base = ENABLE_OAM_DMA
    /\ cpu_I = FALSE
    /\ actor = 0
    /\ ret = 0
    /\ pc = [at |-> "idle", i |-> 0, x |-> 0, y |-> 0]
    /\ lastCall = Call("reset", 0, 0, 0)
    /\ written = NotWritten
    /\ dma = DmaReset
    /\ vbl_done = FALSE
    /\ _map_tile_offset \in {0, StaleOffset}
    /\ _submap_tile_offset \in {0, StaleOffset}
    /\ calls = <<>>

NextBased ==
    \/ \E args \in MapArgs : set_bkg_tiles(args)
    \/ \E args \in MapArgs, base_tile \in BaseTiles : set_bkg_based_tiles_Begin(args, base_tile)
    \/ set_bkg_based_tiles_Inner
    \/ set_bkg_based_tiles_End
    \/ \E args \in MapArgs : set_bkg_submap(args)
    \/ \E args \in MapArgs, base_tile \in BaseTiles : set_bkg_based_submap_Begin(args, base_tile)
    \/ set_bkg_based_submap_Inner
    \/ set_bkg_based_submap_End
    \/ VBlank /\ UNCHANGED pc

SpecBased == InitBased /\ [][NextBased]_vars

\* C15: while set_bkg_based_tiles (set_bkg_based_submap) runs, _map_tile_offset
\* (_submap_tile_offset) equals its base_tile and its inner call runs with
\* that offset; when it returns the variable is 0, whatever it was before the
\* call; and once one such call has returned, every set_bkg_tiles
\* (set_bkg_submap) call by the application runs with offset 0.
C15_OffsetHeldThenCleared ==
    /\ pc.at = "set_bkg_based_tiles" =>
          /\ _map_tile_offset = pc.x
          /\ calls # <<>> => calls[1] = Write("set_bkg_tiles", pc.i, pc.x)
    /\ pc.at = "set_bkg_based_submap" =>
          /\ _submap_tile_offset = pc.x
          /\ calls # <<>> => calls[1] = Write("set_bkg_submap", pc.i, pc.x)
    /\ lastCall.op = "set_bkg_based_tiles.ret" => _map_tile_offset = 0
    /\ lastCall.op = "set_bkg_based_submap.ret" => _submap_tile_offset = 0
    /\ (pc.at = "idle" /\ pc.y \in {1, 3}) =>
          /\ _map_tile_offset = 0
          /\ lastCall.op = "set_bkg_tiles" => calls[1].offset = 0
    /\ (pc.at = "idle" /\ pc.y \in {2, 3}) =>
          /\ _submap_tile_offset = 0
          /\ lastCall.op = "set_bkg_submap" => calls[1].offset = 0

\* The application's own set_bkg_tiles call ran with offset 0 after a
\* set_bkg_based_tiles call and a set_bkg_based_submap call had returned.
C15_Witness ==
    /\ pc = [at |-> "idle", i |-> 0, x |-> 0, y |-> 3]
    /\ lastCall = Call("set_bkg_tiles", 0, 0, 0)
    /\ calls = <<Write("set_bkg_tiles", 0, 0)>>
    /\ _map_tile_offset = 0

(***************************************************************************)
(* SpecWait: an application that moves a sprite, masks and unmasks         *)
(* interrupts, and calls wait_vbl_done.  wait_vbl_done lowers vbl_done and *)
(* spins until the vertical-blank handler has raised it again.  pc.at is   *)
(* "wait_vbl_done" while the call spins; pc.x is 1 when the application's  *)
(* last interrupt call was disable_interrupts; pc.y is 1 once a            *)
(* wait_vbl_done call has returned.                                        *)
(***************************************************************************)
InitWait ==
    /\ Init
    /\ actor = 0

wait_vbl_done_Call ==
    /\ pc.at = "idle"
    /\ vbl_done' = FALSE
    /\ pc' = [pc EXCEPT !.at = "wait_vbl_done"]
    /\ lastCall' = Call("wait_vbl_done", 0, 0, 0)
    /\ UNCHANGED <<shadow_OAM, OAM, _shadow_OAM_base, cpu_I, actor, ret, written, dma, tilevars>>

\* Mutant: the call returns without looking at vbl_done.
wait_vbl_done_Return_NoWait ==
    /\ pc.at = "wait_vbl_done"
    /\ pc' = [pc EXCEPT !.at = "idle", !.y = 1]
    /\ lastCall' = Call("wait_vbl_done.ret", 0, 0, 0)
    /\ UNCHANGED <<shadow_OAM, OAM, _shadow_OAM_base, cpu_I, actor, ret, written, dma,
                   vbl_done, tilevars>>

wait_vbl_done_Return ==
    /\ pc.at = "wait_vbl_done"
    /\ vbl_done
    /\ pc' = [pc EXCEPT !.at = "idle", !.y = 1]
    /\ lastCall' = Call("wait_vbl_done.ret", 0, 0, 0)
    /\ UNCHANGED <<shadow_OAM, OAM, _shadow_OAM_base, cpu_I, actor, ret, written, dma,
                   vbl_done, tilevars>>

WaitIdle ==
    /\ pc.at = "idle"
    /\ \/ enable_interrupts /\ pc' = [pc EXCEPT !.x = 0]
       \/ disable_interrupts /\ pc' = [pc EXCEPT !.x = 1]
       \/ (\E m \in MoveSample : MoveSprite(actor, m[1], m[2])) /\ UNCHANGED pc
       \/ (\E t \in TileSample : SetSpriteTile(actor, t)) /\ UNCHANGED pc
       \/ HideSprite(actor) /\ UNCHANGED pc

NextWait ==
    \/ WaitIdle
    \/ wait_vbl_done_Call
    \/ wait_vbl_done_Return
    \/ VBlank /\ UNCHANGED pc

\* Vertical blanks keep occurring, and the processor keeps running the loop
\* of wait_vbl_done.
SpecWait ==
    /\ InitWait
    /\ [][NextWait]_vars
    /\ WF_vars(VBlank /\ UNCHANGED pc)
    /\ WF_vars(wait_vbl_done_Return)

\* C11: wait_vbl_done returns only when the step before its return was a
\* vertical-blank interrupt delivered during the wait; a wait_vbl_done call
\* made with interrupts disabled by disable_interrupts never returns; and a
\* wait_vbl_done call made with interrupts enabled eventually returns when
\* vertical blanks keep occurring.
C11_WaitReturnsAfterVBlank ==
    /\ [][(pc.at = "wait_vbl_done" /\ pc'.at = "idle") => lastCall.op = "vblank"]_vars
    /\ [][(pc.at = "wait_vbl_done" /\ pc.x = 1) => pc'.at = "wait_vbl_done"]_vars
    /\ (pc.at = "wait_vbl_done" /\ pc.x = 0) ~> (pc.at = "idle")

\* A wait_vbl_done call has returned earlier in the run, and another one,
\* made with interrupts disabled, is spinning.
C11_Witness ==
    /\ pc.at = "wait_vbl_done"
    /\ pc.x = 1
    /\ pc.y = 1
    /\ cpu_I
    /\ ~vbl_done

(***************************************************************************)
(* SpecNest: an application that calls disable_interrupts up to            *)
(* MaxDisables times in a row, enable_interrupts at any point, and moves   *)
(* a sprite in between, with a vertical blank whenever interrupts are not  *)
(* masked.  pc.i counts the disable_interrupts calls made since the last   *)
(* enable_interrupts call; pc.x is the count the last enable_interrupts    *)
(* call found.                                                             *)
(***************************************************************************)
MaxDisables == 3

InitNest ==
    /\ Init
    /\ actor = 0

NestDisable ==
    /\ pc.i < MaxDisables
    /\ disable_interrupts
    /\ pc' = [pc EXCEPT !.i = @ + 1]

NestEnable ==
    /\ enable_interrupts
    /\ pc' = [pc EXCEPT !.i = 0, !.x = pc.i]

NestOther ==
    /\ \/ \E t \in TileSample : SetSpriteTile(actor, t)
       \/ \E m \in MoveSample : MoveSprite(actor, m[1], m[2])
       \/ HideSprite(actor)
       \/ VBlank
    /\ UNCHANGED pc

NextNest == NestDisable \/ NestEnable \/ NestOther

SpecNest == InitNest /\ [][NextNest]_vars

\* C12: interrupts are disabled exactly while at least one disable_interrupts
\* call was made since the last enable_interrupts call, however many such
\* calls were made in a row, and the first enable_interrupts call after them
\* leaves interrupts enabled: the calls do not nest.
C12_DisableDoesNotNest ==
    /\ cpu_I <=> (pc.i > 0)
    /\ lastCall.op = "enable_interrupts" => ~cpu_I
    /\ lastCall.op = "disable_interrupts" => cpu_I

\* One enable_interrupts call, made after two or more disable_interrupts
\* calls in a row, has re-enabled interrupts.
C12_Witness ==
    /\ lastCall.op = "enable_interrupts"
    /\ pc.x >= 2
    /\ pc.i = 0
    /\ ~cpu_I

\* C14: a move_sprite(nb, x, y) call leaves entry nb at horizontal position x
\* and vertical position y whatever they were before, with its tile and prop
\* as before the call, and every other entry as it was.
C14_MovePlacesAbsolutely ==
    [][lastCall'.op = "move_sprite" =>
        LET nb == lastCall'.nb IN
        /\ shadow_OAM'[nb].x = lastCall'.a
        /\ shadow_OAM'[nb].y = lastCall'.b
        /\ get_sprite_tile(shadow_OAM', nb) = get_sprite_tile(shadow_OAM, nb)
        /\ get_sprite_prop(shadow_OAM', nb) = get_sprite_prop(shadow_OAM, nb)
        /\ \A i \in SpriteNumbers \ {nb} : shadow_OAM'[i] = shadow_OAM[i]]_vars

\* move_sprite moved the last sprite, placed somewhere before, to 128, 112.
C14_Witness ==
    /\ pc.at = "place"
    /\ lastCall = Call("move_sprite", MAX_HARDWARE_SPRITES - 1, 128, 112)
    /\ shadow_OAM[MAX_HARDWARE_SPRITES - 1].x = 128
    /\ shadow_OAM[MAX_HARDWARE_SPRITES - 1].y = 112

\* The sum of a byte and a signed delta, brought back into 0..255.
WrapByte(sum) == IF sum < 0 THEN sum + 256 ELSE IF sum > 255 THEN sum - 256 ELSE sum

\* C3: scroll_sprite(nb, dx, dy) on an entry at (x, y) leaves it at
\* ((x + dx) mod 256, (y + dy) mod 256).
C3_ScrollWraps ==
    [][lastCall'.op = "scroll_sprite" =>
        LET nb == lastCall'.nb IN
        /\ shadow_OAM'[nb].x = WrapByte(shadow_OAM[nb].x + lastCall'.a)
        /\ shadow_OAM'[nb].y = WrapByte(shadow_OAM[nb].y + lastCall'.b)]_vars

\* scroll_sprite(63, -10, 9) from (4, 251): X wrapped below 0, Y above 255.
C3_Witness ==
    /\ lastCall = Call("scroll_sprite", MAX_HARDWARE_SPRITES - 1, -10, 9)
    /\ shadow_OAM[MAX_HARDWARE_SPRITES - 1].x = 250
    /\ shadow_OAM[MAX_HARDWARE_SPRITES - 1].y = 4

\* C6: while the application moves the group only inside the critical
\* section, the hardware OAM never holds a frame in which some sprites of the
\* group are moved and others are not.
C6_NoHalfUpdatedFrame == MetaConsistent(OAM)

\* The application is in the middle of an update, the shadow buffer holds a
\* half-moved group, and the hardware OAM shows an earlier, whole update.
C6_Witness ==
    /\ pc.at = "update"
    /\ pc.i = 1
    /\ ~MetaConsistent(shadow_OAM)
    /\ OAM[0].x = 248
    /\ OAM # MetaPlaced

\* C9: once hide_sprite was called on all 64 sprites and no move_sprite or
\* scroll_sprite call followed, a vertical blank leaves no entry of the
\* hardware OAM with a vertical position below 240.
C9_NoSpriteVisible ==
    (pc.at = "hidden" /\ lastCall.op = "vblank") => \A i \in SpriteNumbers : OAM[i].y >= 240

\* All 64 sprites hidden, one of them given a tile and flags since, and a
\* vertical blank brought that to the hardware OAM.
C9_Witness ==
    /\ pc.at = "hidden"
    /\ lastCall.op = "vblank"
    /\ \A i \in SpriteNumbers : shadow_OAM[i].y = 240 /\ OAM[i].y = 240
    /\ OAM[actor].tile = 1
    /\ OAM[actor].prop = 128

====
